---- MODULE Spec2Model ----
(***************************************************************************)
(* Typed JSON extraction (TerminalApp::JsonUtils) and the layering of      *)
(* documents onto GlobalAppSettings (GlobalAppSettings::LayerJson).        *)
(*                                                                         *)
(* A JSON string is a sequence of one-character strings, so that the code  *)
(* that looks inside a string (std::getline, std::stoi, the enum name      *)
(* comparison, the GUID and colour parsers) is modelled by what it does.   *)
(* A real number is kept as an integer number of halves: Real 5 is 2.5.    *)
(***************************************************************************)
EXTENDS Integers, Sequences, FiniteSets, TLC

VARIABLES
    settings,   \* the GlobalAppSettings object: one field per member
    prev,       \* the members as they were when the last LayerJson was entered
    calls,      \* the LayerJson calls so far: <<[json, err]>>, oldest first
    call,       \* the arguments of the last JsonUtils call (conversion runs)
    outcome     \* what that call returned, assigned and threw

vars == <<settings, prev, calls, call, outcome>>

-----------------------------------------------------------------------------
(* Bounds of the model *)

\* the number of LayerJson calls applied to one settings object
MaxLayers == 2
\* the longest launch-position string that is enumerated character by character
MaxLen == 4

-----------------------------------------------------------------------------
(* Json::Value *)

\* every value carries all payload fields, so that any two values compare
Json(kind, b, n, s, a) == [kind |-> kind, b |-> b, n |-> n, s |-> s, a |-> a]
JNull == Json("null", FALSE, 0, <<>>, <<>>)
JBool(b) == Json("bool", b, 0, <<>>, <<>>)
JInt(n) == Json("int", FALSE, n, <<>>, <<>>)
JReal(halves) == Json("real", FALSE, halves, <<>>, <<>>)
JString(s) == Json("string", FALSE, 0, s, <<>>)
JArray(a) == Json("array", FALSE, 0, <<>>, a)
JObject == Json("object", FALSE, 0, <<>>, <<>>)

INT_MAX == 2147483647

\* Json::Value::operator bool(): a value is "truthy" unless it is null
OperatorBool(json) == json.kind # "null"
isNull(json) == json.kind = "null"
isBool(json) == json.kind = "bool"
isString(json) == json.kind = "string"
\* an integer in int range, or a real that is integral and in int range
isInt(json) ==
    \/ json.kind = "int"
    \/ json.kind = "real" /\ json.n % 2 = 0
isNumeric(json) == json.kind \in {"int", "real"}

\* values of the destination types
FloatOf(halves) == [halves |-> halves]
Wide(s) == [i \in 1..Len(s) |-> [wc |-> s[i]]]

\* an exception in flight: its dynamic type and the pieces of what()
NoError == [type |-> "none", what |-> <<>>]
Exception(type, what) == [type |-> type, what |-> what]
Threw(e) == e.type # "none"

\* the result of a conversion: the value, or the exception it threw
Returns(v) == [err |-> NoError, v |-> v]
Throws(e) == [err |-> e, v |-> 0]

asString(json) == Returns(json.s)
asBool(json) == Returns(json.b)
\* truncation toward zero of a real, the value itself of an integer
asInt(json) ==
    IF json.kind = "real"
    THEN Returns(IF json.n >= 0 THEN json.n \div 2 ELSE -((-json.n) \div 2))
    ELSE Returns(json.n)
\* JSON_ASSERT_MESSAGE(isUInt(), "LargestInt out of UInt range")
asUInt(json) ==
    IF json.kind = "int"
    THEN IF json.n >= 0
         THEN Returns(json.n)
         ELSE Throws(Exception("Json::LogicError", <<"LargestInt out of UInt range">>))
    ELSE IF json.n >= 0
         THEN Returns(json.n \div 2)
         ELSE Throws(Exception("Json::LogicError", <<"double out of UInt range">>))
asFloat(json) ==
    IF json.kind = "int" THEN Returns(FloatOf(2 * json.n)) ELSE Returns(FloatOf(json.n))
asDouble(json) == asFloat(json)

-----------------------------------------------------------------------------
(* Characters *)

Digits == {"0", "1", "2", "3", "4", "5", "6", "7", "8", "9"}
HexLetters == {"a", "b", "c", "d", "e", "f", "A", "B", "C", "D", "E", "F"}

DigitVal(c) ==
    CASE c = "0" -> 0 [] c = "1" -> 1 [] c = "2" -> 2 [] c = "3" -> 3
      [] c = "4" -> 4 [] c = "5" -> 5 [] c = "6" -> 6 [] c = "7" -> 7
      [] c = "8" -> 8 [] c = "9" -> 9

HexVal(c) ==
    CASE c \in Digits -> DigitVal(c)
      [] c \in {"a", "A"} -> 10 [] c \in {"b", "B"} -> 11 [] c \in {"c", "C"} -> 12
      [] c \in {"d", "D"} -> 13 [] c \in {"e", "E"} -> 14 [] c \in {"f", "F"} -> 15

IsHex(c) == c \in Digits \cup HexLetters

Rep(c, n) == [i \in 1..n |-> c]

-----------------------------------------------------------------------------
(* std::optional *)

\* an empty optional keeps a value-initialised payload of its type
nullopt == [has |-> FALSE, v |-> 0]
Nullopt(init) == [has |-> FALSE, v |-> init]
Some(v) == [has |-> TRUE, v |-> v]

-----------------------------------------------------------------------------
(* Parsers the conversions call *)

\* ::Microsoft::Console::Utils::GuidFromString: the registry form
\* {xxxxxxxx-xxxx-xxxx-xxxx-xxxxxxxxxxxx}; anything else fails
GuidHyphens == {10, 15, 20, 25}
IsGuidString(s) ==
    /\ Len(s) = 38
    /\ s[1] = "{"
    /\ s[38] = "}"
    /\ \A i \in 2..37 : IF i \in GuidHyphens THEN s[i] = "-" ELSE IsHex(s[i])
GuidOf(s) == [i \in 1..38 |-> IF i \in 2..37 /\ i \notin GuidHyphens THEN HexVal(s[i]) ELSE 0]
GuidFromString(s) ==
    IF IsGuidString(s)
    THEN Returns(GuidOf(s))
    ELSE Throws(Exception("wil::ResultException", <<"GuidFromString failed">>))
GUID_NULL == [i \in 1..38 |-> 0]

\* ::Microsoft::Console::Utils::ColorFromHexString: #rrggbb
IsColorString(s) == Len(s) = 7 /\ s[1] = "#" /\ \A i \in 2..7 : IsHex(s[i])
ColorFromHexString(s) ==
    IF IsColorString(s)
    THEN Returns([r |-> 16 * HexVal(s[2]) + HexVal(s[3]),
                  g |-> 16 * HexVal(s[4]) + HexVal(s[5]),
                  b |-> 16 * HexVal(s[6]) + HexVal(s[7])])
    ELSE Throws(Exception("wil::ResultException", <<"ColorFromHexString failed">>))

\* std::getline(tokenStream, token, ','): fails when no character is left;
\* otherwise the token runs up to the next delimiter, which is consumed
RECURSIVE FindDelim(_, _)
FindDelim(s, i) ==
    IF i > Len(s) \/ s[i] = "," THEN i ELSE FindDelim(s, i + 1)
getline(s, pos) ==
    IF pos > Len(s)
    THEN [ok |-> FALSE, token |-> <<>>, next |-> pos]
    ELSE LET j == FindDelim(s, pos)
         IN [ok |-> TRUE, token |-> SubSeq(s, pos, j - 1), next |-> j + 1]

\* std::stoi(token): leading whitespace, an optional sign, then the longest
\* run of digits; whatever follows the digits is ignored.  No digit:
\* std::invalid_argument.  Out of int range: std::out_of_range.
Whitespace == {" ", "\t"}
RECURSIVE SkipSpace(_, _)
SkipSpace(s, i) ==
    IF i <= Len(s) /\ s[i] \in Whitespace THEN SkipSpace(s, i + 1) ELSE i
\* the digits from i on: how many, their value, and whether it left the range
RECURSIVE Accumulate(_, _, _)
Accumulate(s, i, acc) ==
    IF i > Len(s) \/ s[i] \notin Digits
    THEN [count |-> 0, value |-> acc, range |-> FALSE]
    ELSE IF acc > (INT_MAX - DigitVal(s[i])) \div 10
         THEN [count |-> 1, value |-> 0, range |-> TRUE]
         ELSE LET rest == Accumulate(s, i + 1, 10 * acc + DigitVal(s[i]))
              IN [rest EXCEPT !.count = rest.count + 1]
stoi(token) ==
    LET i == SkipSpace(token, 1)
        signed == i <= Len(token) /\ token[i] \in {"+", "-"}
        negative == signed /\ token[i] = "-"
        digits == Accumulate(token, IF signed THEN i + 1 ELSE i, 0)
    IN IF digits.count = 0
       THEN Throws(Exception("std::invalid_argument", <<"invalid stoi argument">>))
       ELSE IF digits.range
            THEN Throws(Exception("std::out_of_range", <<"stoi argument out of range">>))
            ELSE Returns(IF negative THEN -digits.value ELSE digits.value)

-----------------------------------------------------------------------------
(* ConversionTrait<T> *)

SystemThemeValue == <<"s", "y", "s", "t", "e", "m">>
LightThemeValue == <<"l", "i", "g", "h", "t">>
DarkThemeValue == <<"d", "a", "r", "k">>
DefaultLaunchModeValue == <<"d", "e", "f", "a", "u", "l", "t">>
MaximizedLaunchModeValue == <<"m", "a", "x", "i", "m", "i", "z", "e", "d">>
EqualTabWidthModeValue == <<"e", "q", "u", "a", "l">>
TitleLengthTabWidthModeValue == <<"t", "i", "t", "l", "e", "L", "e", "n", "g", "t", "h">>

ElementTheme_mappings ==
    << <<SystemThemeValue, "ElementTheme::Default">>,
       <<LightThemeValue, "ElementTheme::Light">>,
       <<DarkThemeValue, "ElementTheme::Dark">> >>
LaunchMode_mappings ==
    << <<DefaultLaunchModeValue, "LaunchMode::DefaultMode">>,
       <<MaximizedLaunchModeValue, "LaunchMode::MaximizedMode">> >>
TabViewWidthMode_mappings ==
    << <<EqualTabWidthModeValue, "TabViewWidthMode::Equal">>,
       <<TitleLengthTabWidthModeValue, "TabViewWidthMode::SizeToContent">> >>

EnumTypes == {"ElementTheme", "LaunchMode", "TabViewWidthMode"}
mappings(T) ==
    CASE T = "ElementTheme" -> ElementTheme_mappings
      [] T = "LaunchMode" -> LaunchMode_mappings
      [] T = "TabViewWidthMode" -> TabViewWidthMode_mappings

\* (mutation) the fallback is the last pair instead of the first
RECURSIVE KeyValueMapper_Lookup_LastIsDefault(_, _, _)
KeyValueMapper_Lookup_LastIsDefault(pairs, name, i) ==
    IF i > Len(pairs)
    THEN pairs[Len(pairs)][2]
    ELSE IF pairs[i][1] = name
         THEN pairs[i][2]
         ELSE KeyValueMapper_Lookup_LastIsDefault(pairs, name, i + 1)

\* KeyValueMapper::FromJson: the first pair whose name is the string, else
\* the first pair
RECURSIVE KeyValueMapper_Lookup(_, _, _)
KeyValueMapper_Lookup(pairs, name, i) ==
    IF i > Len(pairs)
    THEN pairs[1][2]
    ELSE IF pairs[i][1] = name
         THEN pairs[i][2]
         ELSE KeyValueMapper_Lookup(pairs, name, i + 1)
KeyValueMapper_FromJson(T, json) == Returns(KeyValueMapper_Lookup(mappings(T), json.s, 1))

\* ConversionTrait<LaunchPosition>::FromJson
RECURSIVE LaunchPosition_Loop(_, _, _, _)
LaunchPosition_Loop(s, pos, initialPosIndex, ret) ==
    LET got == getline(s, pos)
    IN IF got.ok /\ initialPosIndex < 2
       THEN LET position == stoi(got.token)
                assigned ==
                    IF Threw(position.err)
                    THEN ret
                    ELSE IF initialPosIndex = 0
                         THEN [ret EXCEPT !.x = Some(position.v)]
                         ELSE [ret EXCEPT !.y = Some(position.v)]
            IN LaunchPosition_Loop(s, got.next, initialPosIndex + 1, assigned)
       ELSE ret
LaunchPosition_FromJson(json) ==
    Returns(LaunchPosition_Loop(json.s, 1, 0, [x |-> nullopt, y |-> nullopt]))

PrimitiveTypes == {"std::string", "std::wstring", "bool", "int", "unsigned int", "float", "double"}
Types == PrimitiveTypes \cup {"GUID", "winrt::guid", "til::color", "LaunchPosition"} \cup EnumTypes

\* (mutation) the int rule asks isNumeric where it should ask isInt
CanConvert_IntTakesAnyNumber(T, json) ==
    CASE T \in {"std::string", "std::wstring"} -> isString(json)
      [] T = "bool" -> isBool(json)
      [] T \in {"int", "unsigned int", "float", "double"} -> isNumeric(json)
      [] OTHER -> isString(json)

CanConvert(T, json) ==
    CASE T \in {"std::string", "std::wstring"} -> isString(json)
      [] T = "bool" -> isBool(json)
      [] T = "int" -> isInt(json)
      [] T = "unsigned int" -> isInt(json)
      [] T \in {"float", "double"} -> isNumeric(json)
      [] T \in {"GUID", "winrt::guid", "til::color"} -> isString(json)
      [] T \in EnumTypes -> isString(json)
      [] T = "LaunchPosition" -> isString(json)

FromJson(T, json) ==
    CASE T = "std::string" -> asString(json)
      [] T = "std::wstring" -> Returns(Wide(json.s))
      [] T = "bool" -> asBool(json)
      [] T = "int" -> asInt(json)
      [] T = "unsigned int" -> asUInt(json)
      [] T = "float" -> asFloat(json)
      [] T = "double" -> asDouble(json)
      [] T \in {"GUID", "winrt::guid"} -> GuidFromString(json.s)
      [] T = "til::color" -> ColorFromHexString(json.s)
      [] T \in EnumTypes -> KeyValueMapper_FromJson(T, json)
      [] T = "LaunchPosition" -> LaunchPosition_FromJson(json)

\* T{}: the value-initialised object of each destination type
ValueInit(T) ==
    CASE T \in {"std::string", "std::wstring"} -> <<>>
      [] T = "bool" -> FALSE
      [] T \in {"int", "unsigned int"} -> 0
      [] T \in {"float", "double"} -> FloatOf(0)
      [] T \in {"GUID", "winrt::guid"} -> GUID_NULL
      [] T = "til::color" -> [r |-> 0, g |-> 0, b |-> 0]
      [] T = "ElementTheme" -> "ElementTheme::Default"
      [] T = "LaunchMode" -> "LaunchMode::DefaultMode"
      [] T = "TabViewWidthMode" -> "TabViewWidthMode::Equal"
      [] T = "LaunchPosition" -> [x |-> nullopt, y |-> nullopt]

-----------------------------------------------------------------------------
(* GetValue, GetValueForKey *)

TypeMismatchException == Exception("TypeMismatchException", <<"invalid type">>)
KeyedException(key, exception) ==
    Exception("KeyedException", <<"error parsing \"", key, "\": ">> \o exception.what)

\* what a call leaves behind: its return value, the destination, the exception
Result(ret, target, err) == [ret |-> ret, target |-> target, err |-> err]

\* (mutation) the destination is reset before the document is looked at
GetValue_ResetsFirst(T, json, target) ==
    IF OperatorBool(json)
    THEN IF ~CanConvert(T, json)
         THEN Result(FALSE, ValueInit(T), TypeMismatchException)
         ELSE LET converted == FromJson(T, json)
              IN IF Threw(converted.err)
                 THEN Result(FALSE, ValueInit(T), converted.err)
                 ELSE Result(TRUE, converted.v, NoError)
    ELSE Result(FALSE, target, NoError)

\* template<typename T> bool GetValue(const Json::Value&, T&)
GetValue(T, json, target) ==
    IF OperatorBool(json)
    THEN IF ~CanConvert(T, json)
         THEN Result(FALSE, target, TypeMismatchException)
         ELSE LET converted == FromJson(T, json)
              IN IF Threw(converted.err)
                 THEN Result(FALSE, target, converted.err)
                 ELSE Result(TRUE, converted.v, NoError)
    ELSE Result(FALSE, target, NoError)

\* if (GetValue(json, local)) { target = std::move(local); return true; } return false;
\* local is what GetValue left of the value-initialised TOpt
MoveLocal(target, local) ==
    IF Threw(local.err)
    THEN Result(FALSE, target, local.err)
    ELSE IF local.ret
         THEN Result(TRUE, Some(local.target), NoError)
         ELSE Result(FALSE, target, NoError)

\* (mutation) without the isNull branch: a null is treated like a missing value
GetValueOptional_NullIsMissing(T, json, target) ==
    MoveLocal(target, GetValue(T, json, ValueInit(T)))

\* template<typename TOpt> bool GetValue(const Json::Value&, std::optional<TOpt>&)
GetValueOptional(T, json, target) ==
    IF isNull(json)
    THEN Result(TRUE, Nullopt(ValueInit(T)), NoError)
    ELSE MoveLocal(target, GetValue(T, json, ValueInit(T)))

\* overload resolution: the std::optional overload is chosen for an optional destination
GetValueOverload(T, optional, json, target) ==
    IF optional THEN GetValueOptional(T, json, target) ELSE GetValue(T, json, target)

\* Json::Value::find: a pointer to the member, or nullptr
find(json, key) ==
    IF key \in DOMAIN json THEN [found |-> TRUE, value |-> json[key]]
    ELSE [found |-> FALSE, value |-> JNull]

\* Json::Value::operator[] const: the member, or the null singleton
Member(json, key) == IF key \in DOMAIN json THEN json[key] ELSE JNull

\* (mutation) without the try/catch: the inner exception leaves as it is
GetValueForKey_Unwrapped(T, optional, json, key, target) ==
    LET found == find(json, key)
    IN IF found.found
       THEN GetValueOverload(T, optional, found.value, target)
       ELSE Result(FALSE, target, NoError)

\* try { return GetValue(*found, target); }
\* catch (const std::exception& e) { throw KeyedException(key, e); }
TryGetValue(key, got) ==
    IF Threw(got.err)
    THEN Result(FALSE, got.target, KeyedException(key, got.err))
    ELSE got

GetValueForKey(T, optional, json, key, target) ==
    LET found == find(json, key)
    IN IF found.found
       THEN TryGetValue(key, GetValueOverload(T, optional, found.value, target))
       ELSE Result(FALSE, target, NoError)

\* THROW_HR(E_UNEXPECTED)
E_UNEXPECTED == Exception("wil::ResultException", <<"E_UNEXPECTED">>)

\* if (!GetValueForKey(json, key, target)) { THROW_HR(E_UNEXPECTED); }
\* got is what the GetValueForKey call left behind
ThrowIfFalse(got) ==
    IF ~Threw(got.err) /\ ~got.ret
    THEN Result(FALSE, got.target, E_UNEXPECTED)
    ELSE got

\* (mutation) without the test of the return value
GetRequiredValueForKey_Unchecked(T, optional, json, key, target) ==
    GetValueForKey(T, optional, json, key, target)

\* template<typename T> void GetRequiredValueForKey(const Json::Value&, std::string_view, T&)
GetRequiredValueForKey(T, optional, json, key, target) ==
    ThrowIfFalse(GetValueForKey(T, optional, json, key, target))

-----------------------------------------------------------------------------
(* GlobalAppSettings *)

KeybindingsKey == "keybindings"
DefaultProfileKey == "defaultProfile"
AlwaysShowTabsKey == "alwaysShowTabs"
InitialRowsKey == "initialRows"
InitialColsKey == "initialCols"
RowsToScrollKey == "rowsToScroll"
InitialPositionKey == "initialPosition"
ShowTitleInTitlebarKey == "showTerminalTitleInTitlebar"
ThemeKey == "theme"
TabWidthModeKey == "tabWidthMode"
ShowTabsInTitlebarKey == "showTabsInTitlebar"
WordDelimitersKey == "wordDelimiters"
CopyOnSelectKey == "copyOnSelect"
CopyFormattingKey == "copyFormatting"
LaunchModeKey == "launchMode"
ConfirmCloseAllKey == "confirmCloseAllTabs"
SnapToGridOnResizeKey == "snapToGridOnResize"
DebugFeaturesKey == "debugFeatures"

\* a release build: _DEBUG is not defined
debugFeaturesDefault == FALSE

DEFAULT_ROWS == 30
DEFAULT_COLS == 120
DEFAULT_ROWSTOSCROLL == 0
DEFAULT_WORD_DELIMITERS ==
    Wide(<<" ", "/", "\\", "(", ")", "\"", "'", "-", ".", ",", ":", ";", "<", ">", "~",
           "!", "@", "#", "$", "%", "^", "&", "*", "|", "+", "=", "[", "]", "{", "}",
           "~", "?", "u2502">>)

\* GlobalAppSettings::GlobalAppSettings and the member initialisers of the class
GlobalAppSettings ==
    [ DefaultProfile |-> GUID_NULL,
      AlwaysShowTabs |-> TRUE,
      ConfirmCloseAllTabs |-> TRUE,
      InitialRows |-> DEFAULT_ROWS,
      InitialCols |-> DEFAULT_COLS,
      RowsToScroll |-> DEFAULT_ROWSTOSCROLL,
      InitialPosition |-> [x |-> nullopt, y |-> nullopt],
      ShowTitleInTitlebar |-> TRUE,
      ShowTabsInTitlebar |-> TRUE,
      WordDelimiters |-> DEFAULT_WORD_DELIMITERS,
      CopyOnSelect |-> FALSE,
      CopyFormatting |-> FALSE,
      LaunchMode |-> "LaunchMode::DefaultMode",
      Theme |-> "ElementTheme::Default",
      TabWidthMode |-> "TabViewWidthMode::Equal",
      SnapToGridOnResize |-> TRUE,
      DebugFeatures |-> debugFeaturesDefault,
      keybindings |-> <<>>,
      keybindingsWarnings |-> <<>> ]

\* AppKeyBindings::LayerJson: every entry of the array is bound or, when it is
\* malformed, skipped with a warning; the warnings come back in entry order
WellFormedBinding == "binding"
TooManyKeysEntry == "tooManyKeys"
MissingParameterEntry == "missingParameter"
BindingWarning(entry) ==
    IF entry = TooManyKeysEntry THEN <<"SettingsLoadWarnings::TooManyKeysForChord">>
    ELSE IF entry = MissingParameterEntry
         THEN <<"SettingsLoadWarnings::MissingRequiredParameter">>
         ELSE <<>>
RECURSIVE AppKeyBindings_Warnings(_, _)
AppKeyBindings_Warnings(entries, i) ==
    IF i > Len(entries) THEN <<>>
    ELSE BindingWarning(entries[i]) \o AppKeyBindings_Warnings(entries, i + 1)
AppKeyBindings_LayerJson(bound, json) ==
    [ bound |-> bound \o SelectSeq(json.a, LAMBDA e : e = WellFormedBinding),
      warnings |-> AppKeyBindings_Warnings(json.a, 1) ]

\* the GetValueForKey calls of LayerJson, and the hand-parsed rowsToScroll,
\* in the order the function makes them
Step(key, member, T) == [key |-> key, member |-> member, T |-> T]
ManualParse == "manual"
FieldSteps ==
    << Step(DefaultProfileKey, "DefaultProfile", "GUID"),
       Step(AlwaysShowTabsKey, "AlwaysShowTabs", "bool"),
       Step(ConfirmCloseAllKey, "ConfirmCloseAllTabs", "bool"),
       Step(InitialRowsKey, "InitialRows", "int"),
       Step(InitialColsKey, "InitialCols", "int"),
       Step(RowsToScrollKey, "RowsToScroll", ManualParse),
       Step(InitialPositionKey, "InitialPosition", "LaunchPosition"),
       Step(ShowTitleInTitlebarKey, "ShowTitleInTitlebar", "bool"),
       Step(ShowTabsInTitlebarKey, "ShowTabsInTitlebar", "bool"),
       Step(WordDelimitersKey, "WordDelimiters", "std::wstring"),
       Step(CopyOnSelectKey, "CopyOnSelect", "bool"),
       Step(CopyFormattingKey, "CopyFormatting", "bool"),
       Step(LaunchModeKey, "LaunchMode", "LaunchMode"),
       Step(ThemeKey, "Theme", "ElementTheme"),
       Step(TabWidthModeKey, "TabWidthMode", "TabViewWidthMode"),
       Step(SnapToGridOnResizeKey, "SnapToGridOnResize", "bool"),
       Step(DebugFeaturesKey, "DebugFeatures", "bool") >>

KnownKeys == {FieldSteps[i].key : i \in DOMAIN FieldSteps} \cup {KeybindingsKey}

\* (mutation) without the outer test: a missing or null rowsToScroll resets the member
LayerJson_RowsToScroll_NoNullTest(RowsToScroll, json) ==
    LET rowsToScroll == Member(json, RowsToScrollKey)
    IN IF isInt(rowsToScroll) THEN asInt(rowsToScroll).v ELSE 0

\* (mutation) without the else branch: a value that is no int leaves the member alone
LayerJson_RowsToScroll_NoFallback(RowsToScroll, json) ==
    LET rowsToScroll == Member(json, RowsToScrollKey)
    IN IF OperatorBool(rowsToScroll) /\ isInt(rowsToScroll)
       THEN asInt(rowsToScroll).v
       ELSE RowsToScroll

\* if it's not an int we fall back to setting it to 0
LayerJson_RowsToScroll(RowsToScroll, json) ==
    LET rowsToScroll == Member(json, RowsToScrollKey)
    IN IF OperatorBool(rowsToScroll)
       THEN IF isInt(rowsToScroll) THEN asInt(rowsToScroll).v ELSE 0
       ELSE RowsToScroll

\* (mutation) the new warnings replace the list
InsertAtEnd_Assigns(keybindingsWarnings, warnings) == warnings

\* _keybindingsWarnings.insert(_keybindingsWarnings.end(), warnings.begin(), warnings.end())
InsertAtEnd(keybindingsWarnings, warnings) == keybindingsWarnings \o warnings

LayerJson_Keybindings(this, json) ==
    LET keybindings == Member(json, KeybindingsKey)
    IN IF OperatorBool(keybindings)
       THEN LET layered == AppKeyBindings_LayerJson(this.keybindings, keybindings)
            IN [this EXCEPT !.keybindings = layered.bound,
                            !.keybindingsWarnings = InsertAtEnd(@, layered.warnings)]
       ELSE this

\* one statement of LayerJson: the GetValueForKey call for FieldSteps[i], or the
\* hand-parsed rowsToScroll, on the members as the earlier statements left them
Written(this, member, got) ==
    [settings |-> [this EXCEPT ![member] = got.target], err |-> got.err]
LayerJson_Statement(this, json, i) ==
    LET step == FieldSteps[i]
    IN IF step.T = ManualParse
       THEN [settings |-> [this EXCEPT ![step.member] = LayerJson_RowsToScroll(@, json)],
             err |-> NoError]
       ELSE Written(this, step.member,
                    GetValueForKey(step.T, FALSE, json, step.key, this[step.member]))

\* (mutation) an exception is held back until the last statement has run
RECURSIVE LayerJson_From_RunsOn(_, _, _)
LayerJson_From_RunsOn(this, json, i) ==
    IF i > Len(FieldSteps)
    THEN [settings |-> LayerJson_Keybindings(this, json), err |-> NoError]
    ELSE CHOOSE done \in
             UNION { { [settings |-> rest.settings,
                        err |-> IF Threw(after.err) THEN after.err ELSE rest.err] :
                       rest \in {LayerJson_From_RunsOn(after.settings, json, i + 1)} } :
                     after \in {LayerJson_Statement(this, json, i)} } : TRUE

\* the statements of LayerJson from the i-th on; an exception ends the call
\* with the members as they are at that point
RECURSIVE LayerJson_From(_, _, _)
LayerJson_From(this, json, i) ==
    IF i > Len(FieldSteps)
    THEN [settings |-> LayerJson_Keybindings(this, json), err |-> NoError]
    ELSE CHOOSE done \in { IF Threw(after.err) THEN after
                           ELSE LayerJson_From(after.settings, json, i + 1) :
                           after \in {LayerJson_Statement(this, json, i)} } : TRUE

\* (mutation) a key no member reads is an error
LayerJson_RejectsUnknownKeys(this, json) ==
    IF DOMAIN json \subseteq KnownKeys
    THEN LayerJson_From(this, json, 1)
    ELSE [settings |-> this, err |-> Exception("std::runtime_error", <<"unknown key">>)]

\* void GlobalAppSettings::LayerJson(const Json::Value& json)
LayerJson(this, json) == LayerJson_From(this, json, 1)

\* GlobalAppSettings::GetKeybindingsWarnings
GetKeybindingsWarnings(this) == this.keybindingsWarnings

-----------------------------------------------------------------------------
(* The documents and destinations the conversion runs draw from *)

RECURSIVE StringsUpTo(_, _)
StringsUpTo(alphabet, n) ==
    IF n = 0
    THEN {<<>>}
    ELSE LET shorter == StringsUpTo(alphabet, n - 1)
         IN shorter \cup {Append(s, c) : s \in shorter, c \in alphabet}

LaunchAlphabet == {"1", "5", "a", ",", "-", " "}
LaunchExamples ==
    { <<"1", "0", "0", ",", "5", "0">>,
      <<",", "5", "0">>,
      <<"a", "b", "c", ",", "5", "0">>,
      <<"1", "0", "0", ",">>,
      <<",">>,
      <<"1", "0", "0", ",", "5", "0", ",", "9", "9", "9">> }
LaunchStrings == StringsUpTo(LaunchAlphabet, MaxLen) \cup LaunchExamples

GuidString(c) ==
    <<"{">> \o Rep(c, 8) \o <<"-">> \o Rep(c, 4) \o <<"-">> \o Rep(c, 4) \o <<"-">>
        \o Rep(c, 4) \o <<"-">> \o Rep(c, 12) \o <<"}">>

EnumNames ==
    { SystemThemeValue, LightThemeValue, DarkThemeValue, DefaultLaunchModeValue,
      MaximizedLaunchModeValue, EqualTabWidthModeValue, TitleLengthTabWidthModeValue }
SampleStrings ==
    EnumNames
    \cup { <<>>, <<"b", "l", "u", "e">>, <<"L", "i", "g", "h", "t">>, <<"D", "A", "R", "K">>,
           <<"d", "a", "r", "k", " ">>, <<"d", "a", "r">>,
           <<"t", "i", "t", "l", "e", "l", "e", "n", "g", "t", "h">>,
           <<"o", "o", "p", "s">>,
           GuidString("1"), GuidString("A"), SubSeq(GuidString("1"), 1, 37),
           <<"#", "f", "f", "0", "0", "1", "0">>, <<"#", "f", "f", "0">> }
    \cup LaunchExamples

SampleDocs ==
    { JNull, JBool(TRUE), JBool(FALSE), JInt(-1), JInt(0), JInt(3), JInt(50),
      JReal(5), JReal(6), JReal(-2), JReal(-3), JArray(<<>>), JObject }
    \cup {JString(s) : s \in SampleStrings}

DocsFor(T) ==
    IF T = "LaunchPosition"
    THEN SampleDocs \cup {JString(s) : s \in LaunchStrings}
    ELSE SampleDocs

\* a value of each destination type that no conversion of the runs produces
Sentinel(T) ==
    CASE T = "std::string" -> <<"z">>
      [] T = "std::wstring" -> Wide(<<"z">>)
      [] T = "bool" -> TRUE
      [] T \in {"int", "unsigned int"} -> 77
      [] T \in {"float", "double"} -> FloatOf(77)
      [] T \in {"GUID", "winrt::guid"} -> GuidOf(GuidString("7"))
      [] T = "til::color" -> [r |-> 7, g |-> 7, b |-> 7]
      [] T = "ElementTheme" -> "ElementTheme::Dark"
      [] T = "LaunchMode" -> "LaunchMode::MaximizedMode"
      [] T = "TabViewWidthMode" -> "TabViewWidthMode::SizeToContent"
      [] T = "LaunchPosition" -> [x |-> Some(77), y |-> nullopt]

\* the destination as the caller may hold it before the call
Targets(T, optional) ==
    IF optional
    THEN {Nullopt(ValueInit(T)), Some(Sentinel(T))}
    ELSE {Sentinel(T)}

EmptyObject == [k \in {} |-> JNull]
ProbeKeys == {"initialRows", "theme"}

-----------------------------------------------------------------------------
(* Conversion runs: one JsonUtils call on fresh arguments per run *)

Idle == [fn |-> "none"]

CallGetValue ==
    \E T \in Types : \E json \in DocsFor(T) : \E target \in Targets(T, FALSE) :
        /\ call = Idle
        /\ call' = [fn |-> "GetValue", T |-> T, optional |-> FALSE, json |-> json,
                    key |-> "", present |-> TRUE, target |-> target]
        /\ outcome' = GetValue(T, json, target)
        /\ UNCHANGED <<settings, prev, calls>>

CallGetValueOptional ==
    \E T \in Types : \E json \in DocsFor(T) : \E target \in Targets(T, TRUE) :
        /\ call = Idle
        /\ call' = [fn |-> "GetValue", T |-> T, optional |-> TRUE, json |-> json,
                    key |-> "", present |-> TRUE, target |-> target]
        /\ outcome' = GetValueOptional(T, json, target)
        /\ UNCHANGED <<settings, prev, calls>>

\* the object holds `key` mapped to `json`, or only some other key
CallGetValueForKey ==
    \E T \in Types : \E optional \in BOOLEAN : \E json \in SampleDocs :
    \E key \in ProbeKeys : \E present \in BOOLEAN : \E target \in Targets(T, optional) :
        LET object == IF present THEN key :> json ELSE "other" :> json
        IN /\ call = Idle
           /\ call' = [fn |-> "GetValueForKey", T |-> T, optional |-> optional,
                       json |-> json, key |-> key, present |-> present, target |-> target]
           /\ outcome' = GetValueForKey(T, optional, object, key, target)
           /\ UNCHANGED <<settings, prev, calls>>

CallGetRequiredValueForKey ==
    \E T \in Types : \E optional \in BOOLEAN : \E json \in SampleDocs :
    \E key \in ProbeKeys : \E present \in BOOLEAN : \E target \in Targets(T, optional) :
        LET object == IF present THEN key :> json ELSE "other" :> json
        IN /\ call = Idle
           /\ call' = [fn |-> "GetRequiredValueForKey", T |-> T, optional |-> optional,
                       json |-> json, key |-> key, present |-> present, target |-> target]
           /\ outcome' = GetRequiredValueForKey(T, optional, object, key, target)
           /\ UNCHANGED <<settings, prev, calls>>

ConvInit ==
    /\ settings = 0
    /\ prev = 0
    /\ calls = <<>>
    /\ call = Idle
    /\ outcome = Result(FALSE, 0, NoError)

ConvNext ==
    \/ CallGetValue
    \/ CallGetValueOptional
    \/ CallGetValueForKey
    \/ CallGetRequiredValueForKey

ConvSpec == ConvInit /\ [][ConvNext]_vars

-----------------------------------------------------------------------------
(* The documents layered onto the settings *)

\* the most entries of ComboEntries one document combines
MaxKeys == 2

Oops == <<"o", "o", "p", "s">>

\* values a document may give a member of each type: two that convert to
\* different values, ones of another shape, and null
ValuesFor(T) ==
    CASE T = "GUID" ->
            { JString(GuidString("1")), JString(GuidString("A")), JString(Oops), JInt(3), JNull }
      [] T = "bool" -> { JBool(TRUE), JBool(FALSE), JString(Oops), JNull }
      [] T = "int" -> { JInt(3), JInt(50), JString(Oops), JReal(5), JReal(6), JNull }
      [] T = ManualParse ->
            { JInt(3), JInt(50), JString(SystemThemeValue), JReal(5), JNull }
      [] T = "LaunchPosition" ->
            { JString(<<"1", ",", "5">>), JString(<<",">>), JString(<<"a", ",", "5">>),
              JInt(3), JNull }
      [] T = "std::wstring" -> { JString(<<" ", "/">>), JString(<<>>), JInt(3), JNull }
      [] T = "ElementTheme" ->
            { JString(LightThemeValue), JString(DarkThemeValue),
              JString(<<"b", "l", "u", "e">>), JInt(3), JNull }
      [] T = "LaunchMode" ->
            { JString(MaximizedLaunchModeValue), JString(DefaultLaunchModeValue),
              JString(<<"b", "l", "u", "e">>), JBool(TRUE), JNull }
      [] T = "TabViewWidthMode" ->
            { JString(TitleLengthTabWidthModeValue), JString(EqualTabWidthModeValue),
              JString(<<"b", "l", "u", "e">>), JArray(<<>>), JNull }

KeybindingsValues ==
    { JArray(<<WellFormedBinding>>),
      JArray(<<TooManyKeysEntry>>),
      JArray(<<MissingParameterEntry, WellFormedBinding, TooManyKeysEntry>>),
      JNull }

\* keys of the settings file that no member of GlobalAppSettings reads
UnknownKeys == {"profiles", "futureSetting"}
UnknownValues == { JArray(<<>>), JString(Oops) }

SingleKeyDocuments ==
    UNION { {FieldSteps[i].key :> v : v \in ValuesFor(FieldSteps[i].T)} : i \in DOMAIN FieldSteps }
    \cup {KeybindingsKey :> v : v \in KeybindingsValues}
    \cup {k :> v : k \in UnknownKeys, v \in UnknownValues}

\* entries with distinct keys, combined into documents of several keys
ComboEntries ==
    { AlwaysShowTabsKey :> JBool(FALSE),
      InitialRowsKey :> JString(Oops),
      KeybindingsKey :> JArray(<<TooManyKeysEntry>>),
      "futureSetting" :> JObject }

RECURSIVE Merge(_)
Merge(entries) ==
    IF entries = {} THEN EmptyObject
    ELSE LET e == CHOOSE x \in entries : TRUE
         IN e @@ Merge(entries \ {e})

\* documents in which one member's value is rejected while other keys are present:
\* before it, after it (one of them rejected as well), and the keybindings
AbortingDocuments ==
    { AlwaysShowTabsKey :> JBool(FALSE) @@ InitialRowsKey :> JString(Oops)
        @@ RowsToScrollKey :> JInt(3) @@ ThemeKey :> JInt(3)
        @@ KeybindingsKey :> JArray(<<TooManyKeysEntry>>),
      ConfirmCloseAllKey :> JNull @@ InitialColsKey :> JString(Oops) }

Documents ==
    {EmptyObject}
    \cup SingleKeyDocuments
    \cup AbortingDocuments
    \cup {Merge(S) : S \in {X \in SUBSET ComboEntries : Cardinality(X) \in 2..MaxKeys}}

-----------------------------------------------------------------------------
(* Layering runs: LayerJson applied to one settings object, document after document *)

Init ==
    /\ settings = GlobalAppSettings
    /\ prev = GlobalAppSettings
    /\ calls = <<>>
    /\ call = Idle
    /\ outcome = Result(FALSE, 0, NoError)

Layer(json) ==
    /\ Len(calls) < MaxLayers
    /\ \E done \in {LayerJson(settings, json)} :
          /\ settings' = done.settings
          /\ prev' = settings
          /\ calls' = Append(calls, [json |-> json, err |-> done.err])
    /\ UNCHANGED <<call, outcome>>

Next == \E json \in Documents : Layer(json)

Spec == Init /\ [][Next]_vars

-----------------------------------------------------------------------------
(* Claims about layering (checked under Spec) *)

AllReturned == \A i \in DOMAIN calls : ~Threw(calls[i].err)
Last == calls[Len(calls)]
Max(S) == CHOOSE x \in S : \A y \in S : y <= x
Restrict(json, keys) == [k \in DOMAIN json \cap keys |-> json[k]]
IsPrefix(p, q) == Len(p) <= Len(q) /\ SubSeq(q, 1, Len(p)) = p

\* the last call whose document has `key`, and the last whose document gives
\* it a non-null value; 0 when there is none
LastPresent(key) ==
    LET with == {i \in DOMAIN calls : key \in DOMAIN calls[i].json}
    IN IF with = {} THEN 0 ELSE Max(with)
LastNonNull(key) ==
    LET with == {i \in DOMAIN calls : key \in DOMAIN calls[i].json /\ ~isNull(calls[i].json[key])}
    IN IF with = {} THEN 0 ELSE Max(with)

\* the value a member takes from a document's value
Converted(step, v) ==
    IF step.T = ManualParse
    THEN IF v.kind = "int" THEN v.n ELSE IF v.kind = "real" /\ v.n % 2 = 0 THEN v.n \div 2 ELSE 0
    ELSE FromJson(step.T, v).v

\* C1 (as amended): after LayerJson calls that all returned, every member read
\* from a key holds the value converted from the last document that gives the
\* key a non-null value, and its constructor default when no document does.
C1_LayeredValues ==
    AllReturned =>
        \A i \in DOMAIN FieldSteps :
            LET step == FieldSteps[i]
                last == LastNonNull(step.key)
            IN settings[step.member] =
                   IF last = 0
                   THEN GlobalAppSettings[step.member]
                   ELSE Converted(step, calls[last].json[step.key])

\* C1 (as claimed): every member holds the value converted from the last
\* document in which its key is present, its default when the key is in none.
C1_AsClaimed ==
    AllReturned =>
        \A i \in DOMAIN FieldSteps :
            LET step == FieldSteps[i]
                last == LastPresent(step.key)
            IN IF last = 0
               THEN settings[step.member] = GlobalAppSettings[step.member]
               ELSE /\ ~isNull(calls[last].json[step.key])
                    /\ settings[step.member] = Converted(step, calls[last].json[step.key])

\* two documents give one key different non-null values, and the member has
\* left its default
C1_Witness ==
    /\ Len(calls) = 2
    /\ AllReturned
    /\ \E i \in DOMAIN FieldSteps :
           LET key == FieldSteps[i].key
           IN /\ key \in DOMAIN calls[1].json \cap DOMAIN calls[2].json
              /\ ~isNull(calls[1].json[key])
              /\ ~isNull(calls[2].json[key])
              /\ calls[1].json[key] # calls[2].json[key]
              /\ settings[FieldSteps[i].member] # GlobalAppSettings[FieldSteps[i].member]
              /\ settings[FieldSteps[i].member] # prev[FieldSteps[i].member]

\* C8: the last LayerJson call ended exactly as it would have on its document
\* with every unknown key removed (same members, same warnings, same error or
\* none), and a document of unknown keys only changes nothing and returns.
C8_UnknownKeysIgnored ==
    calls # <<>> =>
        /\ LayerJson(prev, Restrict(Last.json, KnownKeys)) = [settings |-> settings, err |-> Last.err]
        /\ DOMAIN Last.json \cap KnownKeys = {} => settings = prev /\ ~Threw(Last.err)

\* a document with an unknown key beside a known one was layered, and it took effect
C8_Witness ==
    /\ calls # <<>>
    /\ DOMAIN Last.json \cap UnknownKeys # {}
    /\ DOMAIN Last.json \cap KnownKeys # {}
    /\ ~Threw(Last.err)
    /\ settings # prev

\* the shape a member's conversion rule accepts
C9_Accepts(T, v) ==
    CASE T = "bool" -> v.kind = "bool"
      [] T = "int" -> v.kind = "int" \/ (v.kind = "real" /\ v.n % 2 = 0)
      [] OTHER -> v.kind = "string"
C9_Aborting(json) ==
    \E i \in DOMAIN FieldSteps :
        LET step == FieldSteps[i]
        IN /\ step.T # ManualParse
           /\ step.key \in DOMAIN json
           /\ ~isNull(json[step.key])
           /\ \/ ~C9_Accepts(step.T, json[step.key])
              \/ step.T = "GUID" /\ ~IsGuidString(json[step.key].s)

\* C9 (as amended): LayerJson throws exactly when a member read through
\* GetValueForKey (all but rowsToScroll and the keybindings) has its key present
\* with a non-null value that its rule rejects (bool: not a Boolean; int: not an
\* integral number; the others: not a String) or, for defaultProfile, a string
\* that is no GUID; what it throws is a KeyedException.
C9_AbortsExactlyOnRejectedValue ==
    \A i \in DOMAIN calls :
        /\ Threw(calls[i].err) <=> C9_Aborting(calls[i].json)
        /\ Threw(calls[i].err) => calls[i].err.type = "KeyedException"

\* the JSON shape the claim gives each member's type (a null counted as no
\* value at all, which is the reading kindest to the claim)
C9_ShapeMatches(T, v) ==
    CASE v.kind = "null" -> TRUE
      [] T = "bool" -> v.kind = "bool"
      [] T \in {"int", ManualParse} -> v.kind = "int"
      [] OTHER -> v.kind = "string"

\* C9 (as claimed): LayerJson throws exactly when some known member's key is
\* present with a value whose shape does not match the member's type.
C9_AsClaimed ==
    \A i \in DOMAIN calls :
        Threw(calls[i].err) <=>
            \E j \in DOMAIN FieldSteps :
                /\ FieldSteps[j].key \in DOMAIN calls[i].json
                /\ ~C9_ShapeMatches(FieldSteps[j].T, calls[i].json[FieldSteps[j].key])

\* a call threw on a rejected value, another returned with an unmatched enum literal
C9_Witness ==
    /\ Len(calls) = 2
    /\ calls[1].err.type = "KeyedException"
    /\ InitialRowsKey \in DOMAIN calls[1].json
    /\ ~Threw(calls[2].err)
    /\ ThemeKey \in DOMAIN calls[2].json
    /\ calls[2].json[ThemeKey] = JString(<<"b", "l", "u", "e">>)

\* the warnings the calls so far produced, in call order
RECURSIVE ProducedWarnings(_)
ProducedWarnings(n) ==
    IF n = 0 THEN <<>>
    ELSE LET json == calls[n].json
         IN ProducedWarnings(n - 1) \o
            (IF /\ ~Threw(calls[n].err)
                /\ KeybindingsKey \in DOMAIN json
                /\ json[KeybindingsKey].kind = "array"
             THEN AppKeyBindings_Warnings(json[KeybindingsKey].a, 1)
             ELSE <<>>)

\* C10: GetKeybindingsWarnings returns the warnings of the calls that returned,
\* concatenated in call order; a call keeps the earlier warnings as a prefix,
\* leaves the list alone when its document has no keybindings key, and ends
\* with the same error or none as it would without the keybindings key.
C10_WarningsAccumulate ==
    /\ GetKeybindingsWarnings(settings) = ProducedWarnings(Len(calls))
    /\ calls # <<>> =>
        /\ IsPrefix(GetKeybindingsWarnings(prev), GetKeybindingsWarnings(settings))
        /\ KeybindingsKey \notin DOMAIN Last.json =>
               GetKeybindingsWarnings(settings) = GetKeybindingsWarnings(prev)
        /\ Last.err = LayerJson(prev, Restrict(Last.json, DOMAIN Last.json \ {KeybindingsKey})).err

\* two calls each added warnings
C10_Witness ==
    /\ Len(calls) = 2
    /\ AllReturned
    /\ Len(GetKeybindingsWarnings(prev)) > 0
    /\ Len(GetKeybindingsWarnings(settings)) > Len(GetKeybindingsWarnings(prev)) + 1

\* the place in LayerJson's order of the statement that reads `key`, and of
\* the statement named by the KeyedException that ended a call
StepOf(key) == CHOOSE i \in DOMAIN FieldSteps : FieldSteps[i].key = key
FailedAt(err) == StepOf(err.what[2])
Reached(err, key) == ~Threw(err) \/ FailedAt(err) > StepOf(key)

\* C12: when a LayerJson call gets as far as rowsToScroll, a non-null value
\* that is an integer (for the JSON library that includes a real with no
\* fraction, 3.0) becomes RowsToScroll; any other non-null value makes it 0;
\* an absent or null key leaves it as it was; and rowsToScroll is never the
\* key an error names.
C12_RowsToScrollManual ==
    calls # <<>> =>
        /\ Reached(Last.err, RowsToScrollKey) =>
               IF RowsToScrollKey \in DOMAIN Last.json /\ ~isNull(Last.json[RowsToScrollKey])
               THEN LET v == Last.json[RowsToScrollKey]
                    IN settings.RowsToScroll =
                           IF v.kind = "int" THEN v.n
                           ELSE IF v.kind = "real" /\ v.n % 2 = 0 THEN v.n \div 2
                           ELSE 0
               ELSE settings.RowsToScroll = prev.RowsToScroll
        /\ Threw(Last.err) => Last.err.what[2] # RowsToScrollKey
        /\ DOMAIN Last.json = {RowsToScrollKey} => ~Threw(Last.err)

\* rowsToScroll held a number and the string "system" set it to 0 without an error
C12_Witness ==
    /\ calls # <<>>
    /\ RowsToScrollKey \in DOMAIN Last.json
    /\ Last.json[RowsToScrollKey] = JString(SystemThemeValue)
    /\ ~Threw(Last.err)
    /\ prev.RowsToScroll # 0
    /\ settings.RowsToScroll = 0

\* the value of `step`'s key in `json` is one its GetValueForKey call throws on
C13_Rejected(step, json) ==
    /\ step.T # ManualParse
    /\ step.key \in DOMAIN json
    /\ ~isNull(json[step.key])
    /\ \/ ~C9_Accepts(step.T, json[step.key])
       \/ step.T = "GUID" /\ ~IsGuidString(json[step.key].s)

\* C13 (as amended): a LayerJson call that throws does so at the first member,
\* in the order of the statements, whose value is rejected; the members before
\* it hold the document's converted value where the document gives their key a
\* non-null value and are unchanged otherwise; that member, every later
\* member, the keybindings and the warnings are as they were before the call.
C13_FailsInOrder ==
    (calls # <<>> /\ Threw(Last.err)) =>
        LET k == FailedAt(Last.err)
        IN /\ C13_Rejected(FieldSteps[k], Last.json)
           /\ \A i \in 1..(k - 1) : ~C13_Rejected(FieldSteps[i], Last.json)
           /\ \A i \in 1..(k - 1) :
                  LET step == FieldSteps[i]
                  IN settings[step.member] =
                         IF step.key \in DOMAIN Last.json /\ ~isNull(Last.json[step.key])
                         THEN Converted(step, Last.json[step.key])
                         ELSE prev[step.member]
           /\ \A i \in k..Len(FieldSteps) :
                  settings[FieldSteps[i].member] = prev[FieldSteps[i].member]
           /\ settings.keybindings = prev.keybindings
           /\ GetKeybindingsWarnings(settings) = GetKeybindingsWarnings(prev)

\* C13 (as claimed): after a call that throws at member k, every earlier
\* member whose key is present in the document holds the document's converted
\* value; member k, the later members, the keybindings and the warnings are
\* as they were before the call.
C13_AsClaimed ==
    (calls # <<>> /\ Threw(Last.err)) =>
        LET k == FailedAt(Last.err)
        IN /\ \A i \in 1..(k - 1) :
                  LET step == FieldSteps[i]
                  IN step.key \in DOMAIN Last.json =>
                         /\ ~isNull(Last.json[step.key])
                         /\ settings[step.member] = Converted(step, Last.json[step.key])
           /\ \A i \in k..Len(FieldSteps) :
                  settings[FieldSteps[i].member] = prev[FieldSteps[i].member]
           /\ settings.keybindings = prev.keybindings
           /\ GetKeybindingsWarnings(settings) = GetKeybindingsWarnings(prev)

\* a call threw at initialRows: alwaysShowTabs, earlier, took the document's
\* value; rowsToScroll, theme and the keybindings, later in the document, did not
C13_Witness ==
    /\ calls # <<>>
    /\ Threw(Last.err)
    /\ FailedAt(Last.err) = StepOf(InitialRowsKey)
    /\ {AlwaysShowTabsKey, RowsToScrollKey, ThemeKey, KeybindingsKey} \subseteq DOMAIN Last.json
    /\ prev.AlwaysShowTabs
    /\ ~settings.AlwaysShowTabs
    /\ settings.RowsToScroll # Last.json[RowsToScrollKey].n
    /\ settings.keybindings = prev.keybindings

-----------------------------------------------------------------------------
(* Claims about GetValue and GetValueForKey (checked under ConvSpec) *)

Called(fn) == call.fn = fn
\* the conversion of the call's document raises no error of its own
Convertible == CanConvert(call.T, call.json) /\ ~Threw(FromJson(call.T, call.json).err)
\* the destination holding the call's document, fully converted
Replaced ==
    IF call.optional
    THEN IF isNull(call.json)
         THEN ~outcome.target.has
         ELSE outcome.target = Some(FromJson(call.T, call.json).v)
    ELSE outcome.target = FromJson(call.T, call.json).v

\* C2: after GetValue or GetValueForKey the destination is either what it was
\* before the call or the fully converted document, and it is what it was
\* whenever the key is absent, the document is null for a non-optional
\* destination, the conversion fails, or the call raises an error.
C2_NoPartialMutation ==
    ~Called("none") =>
        LET kept == outcome.target = call.target
            stays == \/ ~call.present
                     \/ isNull(call.json) /\ ~call.optional
                     \/ ~isNull(call.json) /\ ~Convertible
        IN /\ kept \/ (Replaced /\ outcome.ret /\ ~Threw(outcome.err))
           /\ stays => kept
           /\ ~stays => Replaced
           /\ Threw(outcome.err) => kept

\* a call on an optional destination holding a value raised an error and left it alone
C2_Witness ==
    /\ Called("GetValueForKey")
    /\ call.optional
    /\ call.target.has
    /\ Threw(outcome.err)
    /\ outcome.target = call.target

\* C3: GetValueForKey on an optional destination, whatever it held: a key
\* mapped to null empties it and returns true; a key mapped to a convertible
\* document fills it with the converted value and returns true; a missing key
\* returns false and leaves it alone.
C3_OptionalLayering ==
    (Called("GetValueForKey") /\ call.optional) =>
        /\ (call.present /\ isNull(call.json)) =>
               ~outcome.target.has /\ outcome.ret /\ ~Threw(outcome.err)
        /\ (call.present /\ ~isNull(call.json) /\ Convertible) =>
               /\ outcome.target = Some(FromJson(call.T, call.json).v)
               /\ outcome.ret
               /\ ~Threw(outcome.err)
        /\ ~call.present =>
               outcome.target = call.target /\ ~outcome.ret /\ ~Threw(outcome.err)

\* an optional that held a value was emptied by an explicit null
C3_Witness ==
    /\ Called("GetValueForKey")
    /\ call.optional
    /\ call.present
    /\ call.target.has
    /\ isNull(call.json)
    /\ ~outcome.target.has
    /\ outcome.ret

\* the document shape the claim gives each primitive type, and the document's value
C4_ShapeMatches(T, json) ==
    CASE T \in {"std::string", "std::wstring"} -> json.kind = "string"
      [] T = "bool" -> json.kind = "bool"
      [] T = "int" -> json.kind = "int"
      [] T = "unsigned int" -> json.kind = "int" /\ json.n >= 0
      [] T \in {"float", "double"} -> json.kind = "real"
C4_Value(T, json) ==
    CASE T = "std::string" -> json.s
      [] T = "std::wstring" -> Wide(json.s)
      [] T = "bool" -> json.b
      [] T \in {"int", "unsigned int"} -> json.n
      [] T \in {"float", "double"} -> FloatOf(json.n)
C4_Rule(T) ==
    (Called("GetValue") /\ ~call.optional /\ call.T = T) =>
        IF isNull(call.json)
        THEN outcome = Result(FALSE, call.target, NoError)
        ELSE IF C4_ShapeMatches(T, call.json)
             THEN outcome = Result(TRUE, C4_Value(T, call.json), NoError)
             ELSE outcome.err = TypeMismatchException

\* C4 (as claimed): for every primitive type, GetValue returns false on a null
\* document and leaves the destination alone, assigns the value of a document
\* of the type's shape and returns true, and fails with TypeMismatch on a
\* non-null document of any other shape.
C4_AsClaimed == \A T \in PrimitiveTypes : C4_Rule(T)

\* C4 (as claimed), the rule for unsigned int alone: a non-negative Integer is
\* assigned, every other non-null document fails with TypeMismatch.
C4_UnsignedAsClaimed == C4_Rule("unsigned int")

\* C5: when GetValueForKey finds the key and the extraction raises an error,
\* the error that leaves is a KeyedException whose message names the key and
\* ends with the message of the inner error; no error leaves without the key.
C5_ErrorsCarryKey ==
    Called("GetValueForKey") =>
        LET inner == GetValueOverload(call.T, call.optional, call.json, call.target).err
            what == outcome.err.what
        IN /\ (call.present /\ Threw(inner)) =>
                  /\ outcome.err.type = "KeyedException"
                  /\ Len(what) = 3 + Len(inner.what)
                  /\ what[2] = call.key
                  /\ SubSeq(what, 4, Len(what)) = inner.what
           /\ Threw(outcome.err) => outcome.err.type = "KeyedException" /\ what[2] = call.key
           /\ (call.present /\ call.key = InitialRowsKey /\ call.T = "int"
                   /\ call.json = JString(Oops)) =>
                  what = <<"error parsing \"", "initialRows", "\": ", "invalid type">>

\* "initialRows": "oops" against an int reported the key with the type mismatch
C5_Witness ==
    /\ Called("GetValueForKey")
    /\ call.present
    /\ call.key = InitialRowsKey
    /\ call.T = "int"
    /\ ~call.optional
    /\ call.json = JString(Oops)
    /\ outcome.err.type = "KeyedException"

\* the positions of the pairs named `name`
C6_Matches(T, name) == {i \in DOMAIN mappings(T) : mappings(T)[i][1] = name}

\* C6: converting a string to an enum yields the value of the first declared
\* pair whose name is the string, character for character, and the value of
\* the first pair when no name is; no error is raised.
C6_EnumFallsBackToFirst ==
    (Called("GetValue") /\ ~call.optional /\ call.T \in EnumTypes /\ isString(call.json)) =>
        LET matches == C6_Matches(call.T, call.json.s)
            first == CHOOSE i \in matches : \A j \in matches : i <= j
        IN /\ ~Threw(outcome.err)
           /\ outcome.ret
           /\ outcome.target = IF matches = {} THEN mappings(call.T)[1][2]
                               ELSE mappings(call.T)[first][2]
           /\ (call.T = "ElementTheme" /\ call.json.s = <<"b", "l", "u", "e">>) =>
                  outcome.target = "ElementTheme::Default"

\* theme "blue" was converted, from a destination holding another theme
C6_Witness ==
    /\ Called("GetValue")
    /\ call.T = "ElementTheme"
    /\ call.json = JString(<<"b", "l", "u", "e">>)
    /\ call.target = "ElementTheme::Dark"
    /\ outcome.target = "ElementTheme::Default"

\* the string cut at its commas
RECURSIVE C7_Split(_, _)
C7_Split(s, token) ==
    IF s = <<>> THEN <<token>>
    ELSE IF Head(s) = "," THEN <<token>> \o C7_Split(Tail(s), <<>>)
         ELSE C7_Split(Tail(s), Append(token, Head(s)))
\* a decimal integer: an optional sign, then digits and nothing else
C7_Unsigned(token) == IF token # <<>> /\ token[1] \in {"+", "-"} THEN Tail(token) ELSE token
C7_Numeric(token) ==
    C7_Unsigned(token) # <<>> /\ \A i \in DOMAIN C7_Unsigned(token) : C7_Unsigned(token)[i] \in Digits
RECURSIVE C7_Decimal(_)
C7_Decimal(digits) ==
    IF digits = <<>> THEN 0
    ELSE 10 * C7_Decimal(SubSeq(digits, 1, Len(digits) - 1)) + DigitVal(digits[Len(digits)])
C7_IntegerValue(token) ==
    IF token[1] = "-" THEN -C7_Decimal(C7_Unsigned(token)) ELSE C7_Decimal(C7_Unsigned(token))
C7_Coordinate(tokens, i) ==
    IF i <= Len(tokens) /\ C7_Numeric(tokens[i]) THEN Some(C7_IntegerValue(tokens[i])) ELSE nullopt

\* C7 (as claimed): a launch-position string is cut at its commas; x is the
\* first token's integer value exactly when the first token is numeric, y the
\* second token's exactly when there is a numeric second token; later tokens
\* change nothing, and no string raises an error.
C7_AsClaimed ==
    (Called("GetValue") /\ ~call.optional /\ call.T = "LaunchPosition" /\ isString(call.json)) =>
        LET tokens == C7_Split(call.json.s, <<>>)
        IN outcome = Result(TRUE, [x |-> C7_Coordinate(tokens, 1), y |-> C7_Coordinate(tokens, 2)],
                            NoError)

\* what GetValueForKey leaves behind on the arguments of the call
SameCallOfGetValueForKey ==
    GetValueForKey(call.T, call.optional,
                   IF call.present THEN call.key :> call.json ELSE "other" :> call.json,
                   call.key, call.target)

\* C11 (as amended): GetRequiredValueForKey throws E_UNEXPECTED and leaves the
\* destination alone when the key is absent, and also when the key is mapped
\* to null and the destination is not an optional; in every other case it ends
\* as GetValueForKey does: a convertible document is assigned and no error
\* leaves, a conversion error leaves as the same KeyedException with the
\* destination as it was.
C11_RequiredValue ==
    Called("GetRequiredValueForKey") =>
        LET missing == ~call.present \/ (isNull(call.json) /\ ~call.optional)
        IN /\ missing => outcome.err = E_UNEXPECTED /\ outcome.target = call.target
           /\ ~missing =>
                  /\ outcome.err = SameCallOfGetValueForKey.err
                  /\ outcome.target = SameCallOfGetValueForKey.target
           /\ (~missing /\ (isNull(call.json) \/ Convertible)) =>
                  ~Threw(outcome.err) /\ Replaced
           /\ (~missing /\ ~isNull(call.json) /\ ~Convertible) =>
                  outcome.err.type = "KeyedException" /\ outcome.target = call.target

\* C11 (as claimed): GetRequiredValueForKey fails fatally, destination
\* untouched, when the key is absent, and ends as GetValueForKey does (same
\* destination, same error or none) whenever the key is present.
C11_AsClaimed ==
    Called("GetRequiredValueForKey") =>
        /\ ~call.present => outcome.err = E_UNEXPECTED /\ outcome.target = call.target
        /\ call.present =>
               /\ outcome.err = SameCallOfGetValueForKey.err
               /\ outcome.target = SameCallOfGetValueForKey.target

\* a required key was absent: E_UNEXPECTED left and the destination kept its value
C11_Witness ==
    /\ Called("GetRequiredValueForKey")
    /\ ~call.present
    /\ ~isNull(call.json)
    /\ outcome.err = E_UNEXPECTED
    /\ outcome.target = call.target

====
